---- MODULE Spec2Model ----
(***************************************************************************)
(* Model of useContentfulUtility                                           *)
(* (src/components/features/contentful-utility/useContentfulUtility.ts):   *)
(* the persisted zustand store, the effect that reconciles the router      *)
(* query with the store, and the render body that decides whether a        *)
(* GraphQL client is built.                                                *)
(***************************************************************************)
EXTENDS Naturals, Sequences, FiniteSets

VARIABLES store, query, decision, snapshots, afterReset, pc

vars == <<store, query, decision, snapshots, afterReset, pc>>

----------------------------------------------------------------------------
(* Bounds of the model. *)

\* Largest number of parameters a URL's query string carries.
MaxParams == 3

\* JavaScript's undefined (an unset store field, a missing query key).
Undef == "<undefined>"

\* Values of the guest parameters; "?space_id=" gives the empty string.
GuestValues == {"", "a", "b"}

\* Values of preview_token in a URL.
PreviewTokenValues == {"", "p"}

\* Values of preview in a URL: the two literals the code knows and another.
PreviewValues == {"true", "false", "maybe"}

\* Values of xray in a URL; "?xray=" gives the empty string.
XrayValues == {"true", "false", ""}

\* Values of the reset parameter in a URL; "?reset" gives the empty string.
ResetValues == {"", "1"}

\* A parameter name the module does not know, and its value.
UnrecognizedParam == "utm_source"

UnrecognizedValues == {"x"}

----------------------------------------------------------------------------
(* constants.ts: the parameter names and their classification. *)

guestSpaceRequiredParameters == <<"space_id", "delivery_token">>

guestSpaceOptionalParameters == <<"preview_token">>

editorialParameters == <<"preview", "xray">>

resetParam == "reset"

SeqRange(s) == {s[i] : i \in 1..Len(s)}

----------------------------------------------------------------------------
(* The router's query objects. *)

ParamNames ==
  SeqRange(guestSpaceRequiredParameters) \cup SeqRange(guestSpaceOptionalParameters)
    \cup SeqRange(editorialParameters) \cup {resetParam, UnrecognizedParam}

ParamValues(key) ==
  IF key \in SeqRange(guestSpaceRequiredParameters) THEN GuestValues
  ELSE IF key \in SeqRange(guestSpaceOptionalParameters) THEN PreviewTokenValues
  ELSE IF key = editorialParameters[1] THEN PreviewValues
  ELSE IF key = editorialParameters[2] THEN XrayValues
  ELSE IF key = resetParam THEN ResetValues
  ELSE UnrecognizedValues

\* Every query object of at most MaxParams parameters.
Queries ==
  UNION { {q \in [D -> UNION {ParamValues(k) : k \in D}] :
             \A k \in D : q[k] \in ParamValues(k)} :
          D \in {E \in SUBSET ParamNames : Cardinality(E) <= MaxParams} }

\* The query object of a URL without a query string.
EmptyQuery == [key \in {} |-> ""]

\* query[key]: undefined when the key is not in the object.
QueryGet(q, key) == IF key \in DOMAIN q THEN q[key] ELSE Undef

\* JavaScript truthiness of a string or undefined.
Truthy(v) == v # Undef /\ v # ""

----------------------------------------------------------------------------
(* The store. *)

\* The values the type ContentfulUtilityStore gives to domain.
Domains == {"contentful.com", "flinkly.com", "quirely.com"}

\* The state created by useContentfulUtilityStore.
StoreInit ==
  [preview |-> FALSE, xray |-> FALSE, domain |-> "contentful.com",
   delivery_token |-> Undef, preview_token |-> Undef, space_id |-> Undef]

\* useContentfulUtilityStore.setState({ [key]: value }): merges one key into
\* the state, adding it when the state does not have it.
setState(st, key, value) ==
  IF key \in DOMAIN st
    THEN [st EXCEPT ![key] = value]
    ELSE [k \in DOMAIN st \cup {key} |-> IF k = key THEN value ELSE st[k]]

\* Variant: the store as the first setState of the pass left it.
LatestFirst(st, writes) == IF Len(writes) = 0 THEN st ELSE writes[1]

\* The store after the writes made so far in a pass.
Latest(st, writes) == IF Len(writes) = 0 THEN st ELSE writes[Len(writes)]

----------------------------------------------------------------------------
(* The effect: one reconciliation pass. *)

\* if (query[resetParam])
ResetRequested(q) == Truthy(QueryGet(q, resetParam))

\* Variant: the reset branch also deletes domain.
RECURSIVE ResetWritesDomain(_, _, _)
ResetWritesDomain(st, keys, writes) ==
  IF Len(keys) = 0 THEN Append(writes, setState(Latest(st, writes), "domain", Undef))
  ELSE ResetWritesDomain(st, Tail(keys),
                         Append(writes, setState(Latest(st, writes), Head(keys), Undef)))

\* The reset branch: every guest key is set to undefined, one setState each.
RECURSIVE ResetWrites(_, _, _)
ResetWrites(st, keys, writes) ==
  IF Len(keys) = 0 THEN writes
  ELSE ResetWrites(st, Tail(keys),
                   Append(writes, setState(Latest(st, writes), Head(keys), Undef)))

allParams ==
  SeqRange(guestSpaceRequiredParameters) \cup SeqRange(guestSpaceOptionalParameters)
    \cup SeqRange(editorialParameters)

\* Variant: the query is not filtered.
filteredQueryUnfiltered(q) == q

\* Object.fromEntries(Object.entries(query).filter(([key]) => allParams.has(key)))
filteredQuery(q) == [key \in DOMAIN q \cap allParams |-> q[key]]

\* Variant: every() in place of some().
RequiredMissingEvery(fq) ==
  \A i \in 1..Len(guestSpaceRequiredParameters) :
     ~Truthy(QueryGet(fq, guestSpaceRequiredParameters[i]))

\* guestSpaceRequiredParameters.some(key => !filteredQuery[key])
RequiredMissing(fq) ==
  \E i \in 1..Len(guestSpaceRequiredParameters) :
     ~Truthy(QueryGet(fq, guestSpaceRequiredParameters[i]))

\* guestSpaceOptionalParameters.includes(key) && !query[key]
OptionalNotPassed(q, key) ==
  key \in SeqRange(guestSpaceOptionalParameters) /\ ~Truthy(QueryGet(q, key))

\* Variant: the flag is set to (value === 'true') whatever the literal.
EditorialWritesCoercing(cur, key, value) == <<setState(cur, key, value = "true")>>

\* Variant: 'true' flips the stored flag instead of setting it.
EditorialWritesToggling(cur, key, value) ==
  IF value = "true" THEN <<setState(cur, key, ~cur[key])>>
  ELSE IF value = "false" THEN <<setState(cur, key, FALSE)>>
  ELSE <<>>

\* case preview / xray: the stores written by the two ifs.
EditorialWrites(cur, key, value) ==
  LET w1 == IF value = "true" THEN <<setState(cur, key, TRUE)>> ELSE <<>>
      w2 == IF value = "false"
              THEN <<setState(Latest(cur, w1), key, FALSE)>> ELSE <<>>
  IN  w1 \o w2

\* Variant: a guest key of an incomplete group is deleted instead of skipped.
GuestWritesPruning(cur, q, fq, key, value) ==
  IF Truthy(QueryGet(q, resetParam)) THEN <<>>
  ELSE IF \E i \in 1..Len(guestSpaceRequiredParameters) :
            ~Truthy(QueryGet(fq, guestSpaceRequiredParameters[i]))
    THEN <<setState(cur, key, Undef)>>
  ELSE IF key \in SeqRange(guestSpaceOptionalParameters) /\ ~Truthy(QueryGet(q, key))
    THEN <<setState(cur, key, Undef)>>
  ELSE <<setState(cur, key, value)>>

\* default: the stores written for a guest key.
GuestWrites(cur, q, fq, key, value) ==
  IF ResetRequested(q) THEN <<>>
  ELSE IF RequiredMissing(fq) THEN <<>>
  ELSE IF OptionalNotPassed(q, key) THEN <<setState(cur, key, Undef)>>
  ELSE <<setState(cur, key, value)>>

\* Variant: the complete-group check comes before the switch on the key.
EntryWritesGrouped(cur, q, fq, key, value) ==
  IF RequiredMissing(fq) THEN <<>>
  ELSE IF key \in SeqRange(editorialParameters)
    THEN EditorialWrites(cur, key, value)
    ELSE GuestWrites(cur, q, fq, key, value)

\* The body of the forEach callback for one entry of filteredQuery.
EntryWrites(cur, q, fq, key, value) ==
  IF key \in SeqRange(editorialParameters)
    THEN EditorialWrites(cur, key, value)
    ELSE GuestWrites(cur, q, fq, key, value)

\* Object.entries(filteredQuery).forEach(...), entries in the order given.
RECURSIVE ForEachEntry(_, _, _, _, _)
ForEachEntry(st, q, fq, order, writes) ==
  IF Len(order) = 0 THEN writes
  ELSE LET key == Head(order)
       IN  ForEachEntry(st, q, fq, Tail(order),
             writes \o EntryWrites(Latest(st, writes), q, fq, key, fq[key]))

\* The orders in which a query object can list the keys in S.
Orders(S) ==
  {o \in [1..Cardinality(S) -> S] : \A i, j \in 1..Cardinality(S) : o[i] = o[j] => i = j}

\* The stores produced by the setState calls of one pass, in order.
PassWrites(st, q, order) ==
  IF ResetRequested(q)
    THEN ResetWrites(st, guestSpaceRequiredParameters \o guestSpaceOptionalParameters, <<>>)
    ELSE ForEachEntry(st, q, filteredQuery(q), order, <<>>)

----------------------------------------------------------------------------
(* The render body: the client gate. *)

\* JavaScript's conversion of a template-literal argument to a string.
ToString(v) == IF v = Undef THEN "undefined" ELSE v

\* Variant: falls back to delivery_token when preview_token is unset.
CredentialFallback(st) ==
  IF st.preview /\ st.preview_token # Undef THEN st.preview_token ELSE st.delivery_token

\* preview ? preview_token : delivery_token
Credential(st) == IF st.preview THEN st.preview_token ELSE st.delivery_token

\* Variant: the two template arguments swapped.
EndpointSwapped(st) ==
  <<"https://graphql.", IF st.space_id = Undef THEN "undefined" ELSE st.space_id,
    "/content/v1/spaces/", st.domain, "/">>

\* `https://graphql.${domain}/content/v1/spaces/${space_id}/`
Endpoint(st) ==
  <<"https://graphql.", ToString(st.domain), "/content/v1/spaces/",
    ToString(st.space_id), "/">>

\* guestSpaceRequiredParameters.some(key => !store[key]) || query[resetParam]
GateClosed(st, q) ==
  \/ \E i \in 1..Len(guestSpaceRequiredParameters) :
        ~Truthy(st[guestSpaceRequiredParameters[i]])
  \/ ResetRequested(q)

NoClient == [endpoint |-> <<>>, credential |-> Undef, Authorization |-> <<>>]

\* new GraphQLClient(endpoint, { headers })
GraphQLClient(st) ==
  [endpoint |-> Endpoint(st), credential |-> Credential(st),
   Authorization |-> <<"Bearer ", ToString(Credential(st))>>]

\* The value returned by useContentfulUtility.
Gate(st, q) ==
  IF GateClosed(st, q)
    THEN [status |-> "Unavailable", preview |-> st.preview, xray |-> st.xray,
          client |-> NoClient]
    ELSE [status |-> "Available", preview |-> st.preview, xray |-> st.xray,
          client |-> GraphQLClient(st)]

NotRendered ==
  [status |-> "none", preview |-> FALSE, xray |-> FALSE, client |-> NoClient]

----------------------------------------------------------------------------
(* The state machine. *)

\* History: a query with the reset parameter has been passed, and since then
\* no query without it that gives both required parameters a value.
AfterReset(q, flag) ==
  IF resetParam \in DOMAIN q THEN TRUE
  ELSE IF \A i \in 1..Len(guestSpaceRequiredParameters) :
            Truthy(QueryGet(q, guestSpaceRequiredParameters[i]))
    THEN FALSE
  ELSE flag

Init ==
  /\ store = StoreInit
  /\ query = EmptyQuery
  /\ decision = NotRendered
  /\ snapshots = << >>
  /\ afterReset = FALSE
  /\ pc = "render"

\* Variant: the Unavailable arm of the gate deletes the stored preview_token.
RenderClearing ==
  /\ pc \in {"render", "rerender"}
  /\ decision' = Gate(store, query)
  /\ store' = IF GateClosed(store, query)
                THEN setState(store, "preview_token", Undef) ELSE store
  /\ pc' = IF pc = "rerender" THEN "idle" ELSE "effect"
  /\ snapshots' = << >>
  /\ UNCHANGED <<query, afterReset>>

\* The render body runs: the gate reads the store and the query.
\* The first render and a render for a new query are followed by the effect.
Render ==
  /\ pc \in {"render", "rerender"}
  /\ decision' = Gate(store, query)
  /\ pc' = IF pc = "rerender" THEN "idle" ELSE "effect"
  /\ snapshots' = << >>
  /\ UNCHANGED <<store, query, afterReset>>

\* The effect runs for the query of the last render; any setState makes the
\* component render again.
Effect ==
  /\ pc = "effect"
  /\ \E order \in Orders(DOMAIN filteredQuery(query)) :
        /\ snapshots' = PassWrites(store, query, order)
        /\ store' = Latest(store, snapshots')
        /\ pc' = IF Len(snapshots') > 0 THEN "rerender" ELSE "idle"
  /\ afterReset' = AfterReset(query, afterReset)
  /\ UNCHANGED <<query, decision>>

\* The router starts a route change. The hook does not run until the new
\* query object is delivered and never reads the old one again.
RouteChange ==
  /\ pc = "idle"
  /\ query' = EmptyQuery
  /\ pc' = "route"
  /\ UNCHANGED <<store, decision, snapshots, afterReset>>

\* The router delivers a new query object.
Navigate ==
  /\ pc = "route"
  /\ \E q \in Queries : query' = q
  /\ pc' = "render"
  /\ UNCHANGED <<store, decision, snapshots, afterReset>>

Next == Render \/ Effect \/ RouteChange \/ Navigate

Spec == Init /\ [][Next]_vars

----------------------------------------------------------------------------
(* Vocabulary of the properties. *)

\* The reset signal as the specification defines it: the key is in the query.
HasReset(q) == resetParam \in DOMAIN q

\* The pass for the current query has run.
PassDone == pc \in {"rerender", "idle"}

\* The last decision was computed from the current store and query.
DecisionFresh == pc \in {"effect", "idle"}

\* The required guest keys the query contains.
RequiredKeysIn(q) == SeqRange(guestSpaceRequiredParameters) \cap DOMAIN q

\* The query gives a non-empty value for both required guest keys.
BothSupplied(q) ==
  \A key \in SeqRange(guestSpaceRequiredParameters) : key \in DOMAIN q /\ q[key] # ""

GuestFields(st) == <<st.space_id, st.delivery_token, st.preview_token>>

RequiredFields(st) == <<st.space_id, st.delivery_token>>

EditorialFields(st) == <<st.preview, st.xray, st.domain>>

GuestCleared(st) == GuestFields(st) = <<Undef, Undef, Undef>>

----------------------------------------------------------------------------
(* C1 *)

\* C1: a pass whose query has no reset signal and does not contain the key
\* preview_token, started with preview_token set, leaves preview_token unset.
C1_OptionalPruning ==
  [][(/\ pc = "effect"
      /\ store.preview_token # Undef
      /\ ~HasReset(query)
      /\ "preview_token" \notin DOMAIN query) => store'.preview_token = Undef]_vars

----------------------------------------------------------------------------
(* C2 *)

\* C2: a pass whose query contains the reset signal unsets space_id,
\* delivery_token and preview_token, keeps preview, xray and domain at their
\* values before the pass, and the gate then returns Unavailable with no client.
C2_Reset ==
  /\ [][(pc = "effect" /\ HasReset(query)) =>
          (GuestCleared(store') /\ EditorialFields(store') = EditorialFields(store))]_vars
  /\ []((pc = "idle" /\ HasReset(query)) =>
          (decision.status = "Unavailable" /\ decision.client = NoClient))

----------------------------------------------------------------------------
(* C3 *)

\* C3: whatever the value of the reset parameter, the empty string included,
\* a pass whose query has the key clears all guest fields and the gate
\* returns Unavailable.
C3_ResetByPresence ==
  \A value \in ResetValues :
     (PassDone /\ QueryGet(query, resetParam) = value) =>
        /\ GuestCleared(store)
        /\ pc = "idle" => decision.status = "Unavailable"

----------------------------------------------------------------------------
(* C4 *)

\* C4: a pass whose query has no reset signal and contains exactly one of
\* space_id and delivery_token leaves space_id, delivery_token and
\* preview_token as they were before the pass.
C4_IncompleteGroup ==
  [][(/\ pc = "effect"
      /\ ~HasReset(query)
      /\ Cardinality(RequiredKeysIn(query)) = 1) =>
        GuestFields(store') = GuestFields(store)]_vars

\* A pass with only one required key has run and the store still holds a
\* complete pair whose value for that key differs from the query's.
C4_Witness ==
  /\ PassDone
  /\ ~HasReset(query)
  /\ Cardinality(RequiredKeysIn(query)) = 1
  /\ "preview_token" \in DOMAIN query
  /\ \E key \in RequiredKeysIn(query) :
        query[key] # "" /\ store[key] # Undef /\ store[key] # query[key]

----------------------------------------------------------------------------
(* C5 *)

\* C5: after the pass and the render for a query with no reset signal and
\* non-empty space_id and delivery_token, the store holds those two values and
\* the gate returns Available with the endpoint
\* https://graphql.<domain>/content/v1/spaces/<space_id>/ of the stored domain
\* and the new space_id.
C5_CompleteGroup ==
  (pc = "idle" /\ ~HasReset(query) /\ BothSupplied(query)) =>
     /\ store.space_id = query.space_id
     /\ store.delivery_token = query.delivery_token
     /\ decision.status = "Available"
     /\ decision.client.endpoint =
          <<"https://graphql.", store.domain, "/content/v1/spaces/",
            query.space_id, "/">>

\* Both required values were supplied and the client was built.
C5_Witness ==
  /\ pc = "idle"
  /\ ~HasReset(query)
  /\ BothSupplied(query)
  /\ query.space_id # query.delivery_token
  /\ decision.status = "Available"

----------------------------------------------------------------------------
(* C6 *)

\* C6: the gate returns Unavailable with no client exactly when space_id is
\* missing, delivery_token is missing or the reset signal is in the current
\* query, Available otherwise, and the returned preview and xray are the
\* stored ones.
C6_GateDecision ==
  DecisionFresh =>
     /\ decision.status \in {"Unavailable", "Available"}
     /\ (decision.status = "Unavailable") <=>
           (store.space_id = Undef \/ store.delivery_token = Undef \/ HasReset(query))
     /\ (decision.status = "Unavailable") <=> (decision.client = NoClient)
     /\ decision.preview = store.preview
     /\ decision.xray = store.xray

----------------------------------------------------------------------------
(* C7 *)

\* C7: when the gate returns Available the credential is the stored
\* preview_token if the stored preview flag is true and the stored
\* delivery_token otherwise; with preview true and preview_token unset the
\* gate is still Available, the credential is undefined and it is not
\* delivery_token.
C7_CredentialSelection ==
  DecisionFresh =>
     /\ decision.status = "Available" =>
           /\ decision.client.credential =
                 (IF store.preview THEN store.preview_token ELSE store.delivery_token)
           /\ decision.client.Authorization =
                 <<"Bearer ",
                   IF decision.client.credential = Undef
                     THEN "undefined" ELSE decision.client.credential>>
     /\ (/\ store.preview
         /\ store.preview_token = Undef
         /\ store.space_id # Undef
         /\ store.delivery_token # Undef
         /\ ~HasReset(query)) =>
           /\ decision.status = "Available"
           /\ decision.client.credential = Undef
           /\ decision.client.Authorization = <<"Bearer ", "undefined">>

\* The client was built in preview mode without a preview token.
C7_Witness ==
  /\ DecisionFresh
  /\ decision.status = "Available"
  /\ store.preview
  /\ store.preview_token = Undef
  /\ store.delivery_token # Undef

----------------------------------------------------------------------------
(* C8 *)

\* C8: once the pass has run for a query, running it again for the same
\* query leaves the store as the first run left it.
C8_Idempotence ==
  PassDone =>
     \A order \in Orders(DOMAIN filteredQuery(query)) :
        Latest(store, PassWrites(store, query, order)) = store

\* A pass that wrote guest and editorial fields has run.
C8_Witness ==
  /\ pc = "rerender"
  /\ Len(snapshots) >= 3
  /\ BothSupplied(query)
  /\ "preview" \in DOMAIN query
  /\ store.preview

----------------------------------------------------------------------------
(* C9 *)

\* C9: in a pass with no reset signal, preview and xray each become true for
\* the value "true", false for "false", and keep their value for any other
\* value and when the key is absent.
C9_BooleanCoercion ==
  [][(pc = "effect" /\ ~HasReset(query)) =>
        \A key \in SeqRange(editorialParameters) :
           store'[key] = (IF QueryGet(query, key) = "true" THEN TRUE
                          ELSE IF QueryGet(query, key) = "false" THEN FALSE
                          ELSE store[key])]_vars

\* A pass with an unknown literal for one flag and "false" for the other has
\* run: the first flag is still true, the second is false.
C9_Witness ==
  /\ PassDone
  /\ ~HasReset(query)
  /\ \E key, other \in SeqRange(editorialParameters) :
        /\ key \in DOMAIN query
        /\ query[key] \notin {"true", "false"}
        /\ store[key]
        /\ QueryGet(query, other) = "false"
        /\ ~store[other]

----------------------------------------------------------------------------
(* C10 *)

\* C10: once space_id and delivery_token are both set, a pass whose query has
\* no reset signal and does not supply both of them keeps both values, and a
\* pass that unsets one of them carries the reset signal.
C10_StaleRequired ==
  [][(/\ pc = "effect"
      /\ store.space_id # Undef
      /\ store.delivery_token # Undef) =>
        /\ (~HasReset(query) /\ ~BothSupplied(query)) =>
              RequiredFields(store') = RequiredFields(store)
        /\ (store'.space_id = Undef \/ store'.delivery_token = Undef) =>
              HasReset(query)]_vars

\* A pass without any required key has run and the pair set earlier is
\* still in the store.
C10_Witness ==
  /\ PassDone
  /\ ~HasReset(query)
  /\ RequiredKeysIn(query) = {}
  /\ DOMAIN filteredQuery(query) # {}
  /\ store.space_id # Undef
  /\ store.delivery_token # Undef

----------------------------------------------------------------------------
(* C11 *)

\* C11: after every completed pass, space_id is set if and only if
\* delivery_token is set.
C11_AllOrNothing ==
  PassDone => ((store.space_id = Undef) <=> (store.delivery_token = Undef))

\* A pass with a non-empty value for only one required key has run and
\* neither required field is set.
C11_Witness ==
  /\ PassDone
  /\ Cardinality(RequiredKeysIn(query)) = 1
  /\ \A key \in RequiredKeysIn(query) : query[key] # ""
  /\ ~HasReset(query)
  /\ store.space_id = Undef
  /\ store.delivery_token = Undef

----------------------------------------------------------------------------
(* C12 *)

\* C12: in every reachable state preview and xray hold a boolean and domain
\* holds one of the enumerated hosts, and domain keeps the value it was
\* created with.
C12_DefaultsDefined ==
  /\ store.domain \in Domains
  /\ store.domain = StoreInit.domain
  /\ store.preview \in BOOLEAN
  /\ store.xray \in BOOLEAN

\* A reset pass has run on a store whose flags were both raised.
C12_Witness ==
  /\ PassDone
  /\ ResetRequested(query)
  /\ Len(snapshots) > 0
  /\ store.preview
  /\ store.xray

----------------------------------------------------------------------------
(* C13 *)

\* C13: the decision produced for a query-change event is the one computed
\* from the store as the pass of that event leaves it; no decision for the new
\* query comes from the store as it was before the pass.
C13_ReconcileThenDecide ==
  [][pc = "effect" => decision = Gate(store', query)]_vars

----------------------------------------------------------------------------
(* C14 *)

\* The pair of new joins one required value that the pass took from the query
\* with the other required value left from before the pass.
Mixed(old, q, new) ==
  /\ new.space_id # Undef
  /\ new.delivery_token # Undef
  /\ \/ /\ new.space_id = QueryGet(q, "space_id")
        /\ new.space_id # old.space_id
        /\ new.delivery_token = old.delivery_token
        /\ new.delivery_token # QueryGet(q, "delivery_token")
     \/ /\ new.delivery_token = QueryGet(q, "delivery_token")
        /\ new.delivery_token # old.delivery_token
        /\ new.space_id = old.space_id
        /\ new.space_id # QueryGet(q, "space_id")

\* C14: the keys of a pass are written one setState at a time, and no
\* decision of the gate is Available with a space_id of one query and a
\* delivery_token of another: the gate decides in a step of its own, on the
\* store as a whole pass left it, and no pass leaves a mixed pair.
C14_NoMixedCredentials ==
  [][/\ pc = "effect" => (decision' = decision /\ ~Mixed(store, query, store'))
     /\ (pc \in {"render", "rerender"} /\ decision'.status = "Available") =>
          /\ store' = store
          /\ decision'.client.endpoint[4] = store.space_id
          /\ decision'.client.credential \in {store.delivery_token, store.preview_token}]_vars

\* A pass has replaced a complete pair by another, key by key: between its
\* writes the store held the space_id of the new query with the
\* delivery_token of the old one, a pair the gate accepts.
C14_Witness ==
  /\ pc = "rerender"
  /\ BothSupplied(query)
  /\ decision.status = "Available"
  /\ decision.client.endpoint[4] # query.space_id
  /\ \E i \in 1..(Len(snapshots) - 1) :
        /\ snapshots[i].space_id = query.space_id
        /\ snapshots[i].delivery_token # query.delivery_token
        /\ Gate(snapshots[i], query).status = "Available"

----------------------------------------------------------------------------
(* C15 *)

\* C15: in a pass with no reset signal, "true" and "false" are applied to
\* preview and to xray whether the required group of the query is complete,
\* incomplete or absent, each flag follows its own parameter only, and the
\* required pair is accepted or not whatever the editorial parameters are.
C15_EditorialIndependence ==
  [][(pc = "effect" /\ ~HasReset(query)) =>
        /\ \A key \in SeqRange(editorialParameters) :
              /\ QueryGet(query, key) = "true" => store'[key] = TRUE
              /\ QueryGet(query, key) = "false" => store'[key] = FALSE
              /\ key \notin DOMAIN query => store'[key] = store[key]
        /\ RequiredFields(store') =
              (IF BothSupplied(query)
                 THEN <<query.space_id, query.delivery_token>>
                 ELSE RequiredFields(store))]_vars

\* A pass with preview=true and a single required key has run: preview is
\* raised, xray is not, and no required field was written.
C15_Witness ==
  /\ PassDone
  /\ ~HasReset(query)
  /\ QueryGet(query, "preview") = "true"
  /\ Cardinality(RequiredKeysIn(query)) = 1
  /\ \A key \in RequiredKeysIn(query) : query[key] # ""
  /\ Len(snapshots) = 1
  /\ store.preview
  /\ ~store.xray
  /\ store.space_id = Undef

----------------------------------------------------------------------------
(* C16 *)

\* The query without its unrecognized parameters: the reset, guest and
\* editorial parameters it contains.
Recognized(q) == [key \in DOMAIN q \cap (allParams \cup {resetParam}) |-> q[key]]

\* C16: a pass whose query has only unrecognized parameter names leaves every
\* store field unchanged, and for any query the store after the pass and the
\* decision of the gate are those of the same query without its unrecognized
\* parameters.
C16_UnrecognizedInert ==
  [][/\ (pc = "effect" /\ DOMAIN query # {} /\ DOMAIN Recognized(query) = {}) =>
          store' = store
     /\ pc = "effect" =>
          \E order \in Orders(DOMAIN filteredQuery(Recognized(query))) :
             store' = Latest(store, PassWrites(store, Recognized(query), order))
     /\ pc \in {"render", "rerender"} =>
          decision' = Gate(store, Recognized(query))]_vars

\* The pass and the render have run for a query with an unrecognized
\* parameter next to a complete pair: the pair is stored, the client built.
C16_Witness ==
  /\ pc = "idle"
  /\ UnrecognizedParam \in DOMAIN query
  /\ BothSupplied(query)
  /\ ~HasReset(query)
  /\ DOMAIN store = DOMAIN StoreInit
  /\ RequiredFields(store) = <<query.space_id, query.delivery_token>>
  /\ decision.status = "Available"

----------------------------------------------------------------------------
(* C18 *)

\* C18: a step in which the gate is evaluated, whichever arm it takes, leaves
\* every store field unchanged; the store changes only in a step of the pass.
C18_SingleWriter ==
  [][/\ pc \in {"render", "rerender"} => store' = store
     /\ store' # store => (pc = "effect" /\ store' = Latest(store, snapshots'))]_vars

\* The gate has built a client from a store that holds all three guest
\* fields, and the store still holds them.
C18_Witness ==
  /\ pc = "idle"
  /\ decision.status = "Available"
  /\ store.preview
  /\ decision.client.credential = store.preview_token
  /\ store.preview_token # Undef

----------------------------------------------------------------------------
(* C17 *)

\* C17: after a pass whose query carries the reset signal, every decision of
\* the gate is Unavailable until a pass whose query has no reset signal and
\* supplies both space_id and delivery_token.
C17_UnavailableUntilComplete ==
  (afterReset /\ DecisionFresh) => decision.status = "Unavailable"

====
